---- MODULE Spec2Model ----
(***************************************************************************)
(* A model of apple_calendar_mcp: the EventKit adapter (calendar.py,       *)
(* class CalendarManager), its domain model (models.py) and the tool       *)
(* server in front of it (server.py).                                      *)
(*                                                                         *)
(* Texts are sequences of one-letter strings, so that lower-casing and     *)
(* substring search are computed, not assumed.  Optional values            *)
(* (Python's `x | None`) are sequences of length at most one: None is <<>> *)
(* and a present value v is <<v>>.  Instants are integers counted in days. *)
(***************************************************************************)
EXTENDS Integers, Sequences, FiniteSets, TLC

VARIABLES
    calendars,    \* host: the calendars, in enumeration order
    defaultCal,   \* host: defaultCalendarForNewEvents, an optional calendar id
    store,        \* host: the committed events, by host event number
    nextId,       \* host: the number the next saved new event gets
    ops,          \* number of tool invocations still allowed
    last,         \* the last invocation: arguments, host calls, outcome
    created,      \* history: Event returned by each successful create_event
    updated,      \* history: identifiers update_event was called with
    deleted,      \* history: identifier -> title returned by a successful delete_event
    manager,      \* server.py: the global _manager, "None" or "ready"
    authStatus,   \* host: authorizationStatusForEntityType_
    pc,           \* per tool invocation: where its handler stands
    tool,         \* per tool invocation: the tool or resource invoked
    running,      \* the invocation the event loop is executing, if any
    pending,      \* host: invocations whose permission callback is still to fire
    done,         \* per invocation: _request_access's `done` flag
    result,       \* per invocation: _request_access's `result[0]`
    outcome,      \* per invocation: what the handler returned
    handles,      \* history: number of EKEventStore handles created
    requests,     \* history: number of permission requests issued
    handshake,    \* history: what the last handshake reported
    issued        \* history: invocations whose adapter call reached the store

adapterVars == <<calendars, defaultCal, store, nextId, ops, last, created, updated, deleted>>

serverVars ==
    <<manager, authStatus, pc, tool, running, pending, done, result, outcome,
      handles, requests, handshake, issued>>

vars == <<adapterVars, serverVars>>

-----------------------------------------------------------------------------
(* Bounds *)

MaxEvents == 2
MaxOps == 1
MaxSteps == 2
MaxTasks == 2

(* EventKit constants, calendar.py:21-26 *)
EKSpanThisEvent == 0
EKSpanFutureEvents == 1

(* search_events defaults *)
DaysBack == 30
DaysForward == 90

(* The local zone's offset from UTC, which datetime.timestamp() and        *)
(* datetime.fromtimestamp() apply to naive datetimes.                      *)
UtcOffset == 9

-----------------------------------------------------------------------------
(* Optional values *)

None == <<>>
Some(v) == <<v>>
Val(o) == o[1]

(* Python truthiness of an optional text: None and "" are falsy. *)
Truthy(o) == o # None /\ Val(o) # <<>>

-----------------------------------------------------------------------------
(* Texts *)

LowerChar(c) ==
    CASE c = "A" -> "a"
      [] c = "B" -> "b"
      [] c = "W" -> "w"
      [] OTHER -> c

Lower(t) == [i \in 1..Len(t) |-> LowerChar(t[i])]

(* Python's `needle in hay` on str *)
Contains(hay, needle) ==
    \E i \in 0..(Len(hay) - Len(needle)) :
        SubSeq(hay, i + 1, i + Len(needle)) = needle

-----------------------------------------------------------------------------
(* Date marshalling *)

ToNSDate(dt) == dt - UtcOffset

ConvertDatetime(ns) == ns + UtcOffset

-----------------------------------------------------------------------------
(* Errors *)

NoError == [kind |-> "none", what |-> "none", detail |-> None]

CalendarError(what, detail) ==
    [kind |-> "CalendarError", what |-> what, detail |-> Some(detail)]

NoSuchCalendarError(name) ==
    [kind |-> "NoSuchCalendarError", what |-> "calendar not found", detail |-> Some(name)]

NoSuchEventError(eventId) ==
    [kind |-> "NoSuchEventError", what |-> "event not found", detail |-> Some(eventId)]

(* issubclass(kind, CalendarError) *)
IsCalendarError(err) ==
    err.kind \in {"CalendarError", "NoSuchCalendarError", "NoSuchEventError"}

-----------------------------------------------------------------------------
(* Host calls, as the adapter issues them *)

HostCall(name) == [call |-> name, span |-> None]
SpanCall(name, span) == [call |-> name, span |-> Some(span)]

-----------------------------------------------------------------------------
(* Calendars *)

CalTitle(calId) ==
    LET i == CHOOSE i \in 1..Len(calendars) : calendars[i].id = calId
    IN  calendars[i].title

(* faulty variant: titles compared with letter case ignored *)
TitleMatchesFold(title, name) == Lower(title) = Lower(name)

(* line 97: `str(cal.title()) == name` *)
TitleMatches(title, name) == title = name

FirstMatch(name) ==
    LET hits == {i \in 1..Len(calendars) : TitleMatches(calendars[i].title, name)}
    IN  IF hits = {} THEN None
        ELSE Some(calendars[CHOOSE i \in hits : \A j \in hits : i <= j].id)

DefaultMissingError == CalendarError("default calendar not found", <<>>)

(* _find_calendar: name is an optional text *)
FindCalendar(name) ==
    IF name = None
    THEN IF defaultCal = None
         THEN [cal |-> None, err |-> DefaultMissingError,
               calls |-> <<HostCall("defaultCalendarForNewEvents")>>]
         ELSE [cal |-> defaultCal, err |-> NoError,
               calls |-> <<HostCall("defaultCalendarForNewEvents")>>]
    ELSE LET hit == FirstMatch(Val(name))
         IN  IF hit = None
             THEN [cal |-> None, err |-> NoSuchCalendarError(Val(name)),
                   calls |-> <<HostCall("calendarsForEntityType")>>]
             ELSE [cal |-> hit, err |-> NoError,
                   calls |-> <<HostCall("calendarsForEntityType")>>]

-----------------------------------------------------------------------------
(* Events *)

IdOf(n) == <<"e", n>>

HasRecurrenceRules(ev) == ev.rules # <<>>

(* Event.from_ekevent *)
FromEkevent(n, ev) ==
    [identifier    |-> IdOf(n),
     title         |-> ev.title,
     start_time    |-> ConvertDatetime(ev.startDate),
     end_time      |-> ConvertDatetime(ev.endDate),
     calendar_name |-> IF ev.calendar = None THEN <<>> ELSE CalTitle(Val(ev.calendar)),
     location      |-> IF Truthy(ev.location) THEN ev.location ELSE None,
     notes         |-> IF Truthy(ev.notes) THEN ev.notes ELSE None,
     url           |-> IF Truthy(ev.url) THEN ev.url ELSE None,
     all_day       |-> ev.allDay,
     is_recurring  |-> HasRecurrenceRules(ev)]

(* NSURL.URLWithString_: nil for the empty string *)
URLWithString(s) == IF s = <<>> THEN None ELSE Some(s)

AlarmWithRelativeOffset(minutes) == (0 - 60) * minutes

(* _to_ek_recurrence *)
FreqMap(f) ==
    CASE f = "daily" -> "EKRecurrenceFrequencyDaily"
      [] f = "weekly" -> "EKRecurrenceFrequencyWeekly"
      [] f = "monthly" -> "EKRecurrenceFrequencyMonthly"
      [] f = "yearly" -> "EKRecurrenceFrequencyYearly"

ToEkRecurrence(rule) ==
    [frequency |-> FreqMap(rule.frequency),
     interval  |-> rule.interval,
     end       |-> IF rule.end_date = None THEN None
                   ELSE Some(ToNSDate(Val(rule.end_date)))]

(* store.eventWithIdentifier_ *)
EventWithIdentifier(eventId) ==
    LET hits == {n \in DOMAIN store : IdOf(n) = eventId}
    IN  IF hits = {} THEN None ELSE Some(CHOOSE n \in hits : TRUE)

(* _find_event *)
FindEvent(eventId) ==
    LET hit == EventWithIdentifier(eventId)
    IN  IF hit = None
        THEN [n |-> None, err |-> NoSuchEventError(eventId)]
        ELSE [n |-> hit, err |-> NoError]

-----------------------------------------------------------------------------
(* Requests (models.py) *)

Fields ==
    {"title", "start_time", "end_time", "calendar_name", "location", "notes",
     "alarms_minutes_offsets", "url", "all_day", "recurrence_rule"}

Daily == [frequency |-> "daily", interval |-> 1, end_date |-> None]
WeeklyUntil == [frequency |-> "weekly", interval |-> 2, end_date |-> Some(3)]

(* The values a request may carry for a field *)
FieldValues(f) ==
    CASE f = "title" -> {<<"a">>, <<"A", "b">>}
      [] f = "start_time" -> {1, 2}
      [] f = "end_time" -> {2, 3}
      [] f = "calendar_name" -> {<<"W">>, <<"w">>, <<"x">>, <<>>}
      [] f = "location" -> {<<"B">>, <<>>}
      [] f = "notes" -> {<<"a", "b">>}
      [] f = "alarms_minutes_offsets" -> {<<>>, <<15>>, <<15, 60>>}
      [] f = "url" -> {<<"u">>, <<>>}
      [] f = "all_day" -> {TRUE, FALSE}
      [] f = "recurrence_rule" -> {Daily, WeeklyUntil}

(* CreateEventRequest: title, start_time and end_time are required, all_day *)
(* defaults to False, every other field to None.                            *)
PlainCreate(title, start, end) ==
    [title |-> title, start_time |-> start, end_time |-> end,
     calendar_name |-> None, location |-> None, notes |-> None,
     alarms_minutes_offsets |-> None, url |-> None, all_day |-> FALSE,
     recurrence_rule |-> None]

CreateRequests ==
    {PlainCreate(t, s, 3) : t \in FieldValues("title"), s \in FieldValues("start_time")}
    \cup {[PlainCreate(<<"a">>, 1, 2) EXCEPT ![f] = Some(v)] :
            f \in {"calendar_name"}, v \in FieldValues("calendar_name")}
    \cup {[PlainCreate(<<"a">>, 1, 2) EXCEPT ![f] = Some(v)] :
            f \in {"location"}, v \in FieldValues("location")}
    \cup {[PlainCreate(<<"a">>, 1, 2) EXCEPT ![f] = Some(v)] :
            f \in {"notes"}, v \in FieldValues("notes")}
    \cup {[PlainCreate(<<"a">>, 1, 2) EXCEPT ![f] = Some(v)] :
            f \in {"url"}, v \in FieldValues("url")}
    \cup {[PlainCreate(<<"a">>, 1, 2) EXCEPT ![f] = Some(v)] :
            f \in {"alarms_minutes_offsets"}, v \in FieldValues("alarms_minutes_offsets")}
    \cup {[PlainCreate(<<"a">>, 1, 2) EXCEPT ![f] = Some(v)] :
            f \in {"recurrence_rule"}, v \in FieldValues("recurrence_rule")}
    \cup {[PlainCreate(<<"a">>, 1, 2) EXCEPT !.all_day = TRUE]}

(* UpdateEventRequest: every field defaults to None.  `supplied` is the set *)
(* of fields the caller wrote in the request (pydantic's model_fields_set); *)
(* a supplied field may carry None.                                         *)
NoChange ==
    [title |-> None, start_time |-> None, end_time |-> None,
     calendar_name |-> None, location |-> None, notes |-> None,
     alarms_minutes_offsets |-> None, url |-> None, all_day |-> None,
     recurrence_rule |-> None, supplied |-> {}]

Supply(req, f, o) == [req EXCEPT ![f] = o, !.supplied = @ \cup {f}]

OneFieldRequests ==
    {Supply(NoChange, "title", Some(v)) : v \in FieldValues("title")}
    \cup {Supply(NoChange, "start_time", Some(v)) : v \in FieldValues("start_time")}
    \cup {Supply(NoChange, "end_time", Some(v)) : v \in FieldValues("end_time")}
    \cup {Supply(NoChange, "calendar_name", Some(v)) : v \in FieldValues("calendar_name")}
    \cup {Supply(NoChange, "location", Some(v)) : v \in FieldValues("location")}
    \cup {Supply(NoChange, "notes", Some(v)) : v \in FieldValues("notes")}
    \cup {Supply(NoChange, "alarms_minutes_offsets", Some(v)) :
            v \in FieldValues("alarms_minutes_offsets")}
    \cup {Supply(NoChange, "url", Some(v)) : v \in FieldValues("url")}
    \cup {Supply(NoChange, "all_day", Some(v)) : v \in FieldValues("all_day")}
    \cup {Supply(NoChange, "recurrence_rule", Some(v)) : v \in FieldValues("recurrence_rule")}
    \cup {Supply(NoChange, f, None) : f \in Fields}

(* Requests that supply a second field next to alarms, recurrence or calendar *)
TwoFieldRequests ==
    {Supply(r, "recurrence_rule", o) :
        r \in {q \in OneFieldRequests : q.supplied \subseteq {"title", "alarms_minutes_offsets"}},
        o \in {None, Some(Daily)}}
    \cup {Supply(r, "calendar_name", Some(v)) :
            r \in {q \in OneFieldRequests : q.supplied = {"title"}},
            v \in {<<"w">>, <<"x">>}}

UpdateRequests == {NoChange} \cup OneFieldRequests \cup TwoFieldRequests

(* What the host reports for a failed save or remove *)
Diagnostics == {"read-only calendar"}

-----------------------------------------------------------------------------
(* Adapter operations (calendar.py).  Each yields the host calls issued,   *)
(* the error raised (NoError if none), the value returned and the store    *)
(* the host holds afterwards.                                              *)

Outcome(calls, err, ret, st, nid) ==
    [calls |-> calls, err |-> err, ret |-> ret, store |-> st, nextId |-> nid]

Put(st, n, ev) == [k \in DOMAIN st \cup {n} |-> IF k = n THEN ev ELSE st[k]]

Drop(st, n) == [k \in DOMAIN st \ {n} |-> st[k]]

CreateSpan(ev) == EKSpanThisEvent

(* faulty variant: the requested calendar name is ignored *)
TargetAlwaysDefault(req) == None

(* line 179: the calendar name create_event resolves *)
TargetCalendarName(req) == req.calendar_name

(* create_event *)
CreateEvent(req, saveOk, diag) ==
    LET found == FindCalendar(TargetCalendarName(req))
        ev == [title     |-> req.title,
               startDate |-> ToNSDate(req.start_time),
               endDate   |-> ToNSDate(req.end_time),
               allDay    |-> req.all_day,
               location  |-> IF Truthy(req.location) THEN req.location ELSE None,
               notes     |-> IF Truthy(req.notes) THEN req.notes ELSE None,
               url       |-> IF Truthy(req.url) THEN URLWithString(Val(req.url)) ELSE None,
               alarms    |-> IF req.alarms_minutes_offsets # None
                             THEN [i \in 1..Len(Val(req.alarms_minutes_offsets)) |->
                                     AlarmWithRelativeOffset(Val(req.alarms_minutes_offsets)[i])]
                             ELSE <<>>,
               rules     |-> IF req.recurrence_rule # None
                             THEN <<ToEkRecurrence(Val(req.recurrence_rule))>>
                             ELSE <<>>,
               calendar  |-> found.cal]
        save == SpanCall("saveEvent", CreateSpan(ev))
    IN  IF found.err # NoError
        THEN Outcome(found.calls, found.err, None, store, nextId)
        ELSE IF ~saveOk
        THEN Outcome(found.calls \o <<save>>, CalendarError("create failed", diag),
                     None, store, nextId)
        ELSE Outcome(found.calls \o <<save>>, NoError,
                     Some(FromEkevent(nextId, ev)), Put(store, nextId, ev), nextId + 1)

(* update_event, lines 194-224: the setters applied to the looked-up event *)
ReplaceRules(ev, req) ==
    IF req.recurrence_rule # None
    THEN <<ToEkRecurrence(Val(req.recurrence_rule))>>
    ELSE ev.rules

ReplaceAlarms(ev, req) ==
    IF req.alarms_minutes_offsets # None
    THEN [i \in 1..Len(Val(req.alarms_minutes_offsets)) |->
            AlarmWithRelativeOffset(Val(req.alarms_minutes_offsets)[i])]
    ELSE ev.alarms

(* faulty variant: a new title also overwrites the notes *)
SetScalarsAndNotes(ev, req) ==
    [ev EXCEPT
        !.title     = IF req.title # None THEN Val(req.title) ELSE @,
        !.startDate = IF req.start_time # None THEN ToNSDate(Val(req.start_time)) ELSE @,
        !.endDate   = IF req.end_time # None THEN ToNSDate(Val(req.end_time)) ELSE @,
        !.allDay    = IF req.all_day # None THEN Val(req.all_day) ELSE @,
        !.location  = IF req.location # None THEN req.location ELSE @,
        !.notes     = IF req.title # None \/ req.notes # None THEN req.notes ELSE @,
        !.url       = IF req.url # None THEN URLWithString(Val(req.url)) ELSE @]

(* lines 194-208 *)
SetScalars(ev, req) ==
    [ev EXCEPT
        !.title     = IF req.title # None THEN Val(req.title) ELSE @,
        !.startDate = IF req.start_time # None THEN ToNSDate(Val(req.start_time)) ELSE @,
        !.endDate   = IF req.end_time # None THEN ToNSDate(Val(req.end_time)) ELSE @,
        !.allDay    = IF req.all_day # None THEN Val(req.all_day) ELSE @,
        !.location  = IF req.location # None THEN req.location ELSE @,
        !.notes     = IF req.notes # None THEN req.notes ELSE @,
        !.url       = IF req.url # None THEN URLWithString(Val(req.url)) ELSE @]

(* lines 212-224 *)
SetAlarmsAndRules(ev, req) ==
    [ev EXCEPT !.alarms = ReplaceAlarms(ev, req), !.rules = ReplaceRules(ev, req)]

(* faulty variant: the span create_event uses, used for every commit *)
SpanAlwaysThisEvent(ev) == EKSpanThisEvent

(* line 226 and line 240 *)
SpanFor(ev) == IF HasRecurrenceRules(ev) THEN EKSpanFutureEvents ELSE EKSpanThisEvent

(* update_event.  A call that raises commits nothing: a later lookup       *)
(* fetches the event as last saved.                                        *)
UpdateEvent(eventId, req, saveOk, diag) ==
    LET look == FindEvent(eventId)
        lookup == <<HostCall("eventWithIdentifier")>>
    IN  IF look.err # NoError
        THEN Outcome(lookup, look.err, None, store, nextId)
        ELSE
        LET n == Val(look.n)
            ev1 == SetScalars(store[n], req)
            found == IF req.calendar_name # None
                     THEN FindCalendar(req.calendar_name)
                     ELSE [cal |-> ev1.calendar, err |-> NoError, calls |-> <<>>]
            ev2 == SetAlarmsAndRules([ev1 EXCEPT !.calendar = found.cal], req)
            save == SpanCall("saveEvent", SpanFor(ev2))
        IN  IF found.err # NoError
            THEN Outcome(lookup \o found.calls, found.err, None, store, nextId)
            ELSE IF ~saveOk
            THEN Outcome(lookup \o found.calls \o <<save>>,
                         CalendarError("update failed", diag), None, store, nextId)
            ELSE Outcome(lookup \o found.calls \o <<save>>, NoError,
                         Some(FromEkevent(n, ev2)), Put(store, n, ev2), nextId)

(* delete_event *)
DeleteEvent(eventId, removeOk, diag) ==
    LET look == FindEvent(eventId)
        lookup == <<HostCall("eventWithIdentifier")>>
    IN  IF look.err # NoError
        THEN Outcome(lookup, look.err, None, store, nextId)
        ELSE
        LET n == Val(look.n)
            title == store[n].title
            remove == <<SpanCall("removeEvent", SpanFor(store[n]))>>
        IN  IF ~removeOk
            THEN Outcome(lookup \o remove, CalendarError("delete failed", diag),
                         None, store, nextId)
            ELSE Outcome(lookup \o remove, NoError, Some(title), Drop(store, n), nextId)

-----------------------------------------------------------------------------
(* Read path *)

(* The host's predicate: the events overlapping [nsStart, nsEnd] in the    *)
(* given calendars (None: all calendars), in the host's own order.         *)
EventsMatching(st, nsStart, nsEnd, cals) ==
    LET RECURSIVE Walk(_)
        Walk(n) ==
            IF n >= nextId THEN <<>>
            ELSE IF /\ n \in DOMAIN st
                    /\ st[n].startDate <= nsEnd
                    /\ st[n].endDate >= nsStart
                    /\ (cals = None \/ st[n].calendar = cals)
                 THEN <<FromEkevent(n, st[n])>> \o Walk(n + 1)
                 ELSE Walk(n + 1)
    IN  Walk(1)

(* the order sorted(..., key=lambda e: e.start_time) keeps: stable *)
ComesBefore(a, b) == a.start_time <= b.start_time

RECURSIVE Insert(_, _)
Insert(sorted, e) ==
    IF sorted = <<>> THEN <<e>>
    ELSE IF ComesBefore(sorted[Len(sorted)], e) THEN Append(sorted, e)
    ELSE Append(Insert(SubSeq(sorted, 1, Len(sorted) - 1), e), sorted[Len(sorted)])

RECURSIVE SortedByStart(_)
SortedByStart(evs) ==
    IF evs = <<>> THEN <<>>
    ELSE Insert(SortedByStart(SubSeq(evs, 1, Len(evs) - 1)), evs[Len(evs)])

(* `if calendar_name:` *)
NameTruthy(name) == Truthy(name)

(* list_events: start and end are datetimes, name an optional text *)
ListEvents(start, end, name) ==
    LET found == IF NameTruthy(name) THEN FindCalendar(name)
                 ELSE [cal |-> None, err |-> NoError, calls |-> <<>>]
        query == <<HostCall("eventsMatchingPredicate")>>
    IN  IF found.err # NoError
        THEN Outcome(found.calls, found.err, None, store, nextId)
        ELSE Outcome(found.calls \o query, NoError,
                     Some(SortedByStart(EventsMatching(store, ToNSDate(start),
                                                       ToNSDate(end), found.cal))),
                     store, nextId)

OrEmpty(o) == IF o = None THEN <<>> ELSE Val(o)

(* faulty variant: the keyword compared without lower-casing *)
MatchesExactCase(e, keyword) ==
    \/ Contains(e.title, keyword)
    \/ Contains(OrEmpty(e.notes), keyword)
    \/ Contains(OrEmpty(e.location), keyword)

(* lines 142-148 *)
Matches(e, keyword) ==
    LET kw == Lower(keyword)
    IN  \/ Contains(Lower(e.title), kw)
        \/ Contains(Lower(OrEmpty(e.notes)), kw)
        \/ Contains(Lower(OrEmpty(e.location)), kw)

Filter(evs, keyword) ==
    LET Keep(e) == Matches(e, keyword)
    IN  SelectSeq(evs, Keep)

(* line 138 *)
WindowStart(now, daysBack) == now - daysBack

(* line 139 *)
WindowEnd(now, daysForward) == now + daysForward

(* search_events *)
SearchEvents(now, keyword, name, daysBack, daysForward) ==
    LET listed == ListEvents(WindowStart(now, daysBack), WindowEnd(now, daysForward), name)
    IN  IF listed.err # NoError THEN listed
        ELSE [listed EXCEPT !.ret = Some(Filter(Val(listed.ret), keyword))]

-----------------------------------------------------------------------------
(* The tool handlers (server.py): call the adapter, turn what it returns   *)
(* or raises into the text sent to the caller.                             *)

(* faulty variant: the handler swallows the error *)
ReportAlwaysOk(res) == [status |-> "ok", error |-> NoError]

(* `except CalendarError as e: return f"Error: {e}"` *)
Report(res) ==
    IF res.err = NoError THEN [status |-> "ok", error |-> NoError]
    ELSE IF IsCalendarError(res.err) THEN [status |-> "error", error |-> res.err]
    ELSE [status |-> "exception", error |-> res.err]

(* The host calls that commit: saveEvent_span_error_, removeEvent_span_error_ *)
Commits(calls) == {i \in 1..Len(calls) : calls[i].span # None}

(* What is recorded of an invocation: its arguments, the host calls the    *)
(* adapter issued, the host's answer to the save or remove (if one was     *)
(* issued), what the adapter raised or returned, what the tool returned.   *)
Invocation(op, id, req, res, hostOk, diag) ==
    [op |-> op, id |-> id, req |-> req, calls |-> res.calls,
     host |-> IF Commits(res.calls) = {} THEN None
              ELSE Some([ok |-> hostOk, diag |-> diag]),
     err |-> res.err, ret |-> res.ret, out |-> Report(res)]

NoInvocation ==
    [op |-> "none", id |-> <<>>, req |-> <<>>, calls |-> <<>>, host |-> None,
     err |-> NoError, ret |-> None, out |-> [status |-> "ok", error |-> NoError]]

(* The identifiers a caller may pass: those the host has issued so far     *)
(* (deleted ones included) and one it never issued.                        *)
EventIdInputs == {IdOf(n) : n \in 1..(nextId - 1)} \cup {<<>>}

NameInputs == {None, Some(<<"W">>), Some(<<"w">>), Some(<<"x">>), Some(<<>>)}

KeywordInputs == {<<>>, <<"A">>, <<"a", "B">>, <<"u">>}

SearchNameInputs == {None, Some(<<"w">>), Some(<<"x">>)}

NowInputs == {2, 33, 0 - 89}

WindowInputs == {<<1, 1>>, <<1, 3>>, <<3, 3>>, <<4, 5>>}

(* days_back and days_forward: the defaults, which the server's tool uses, *)
(* and a narrow window a direct caller of the adapter may ask for          *)
SearchWindows == {<<DaysBack, DaysForward>>, <<0, 1>>}

SearchRequest(now, keyword, name, days) ==
    [now |-> now, keyword |-> keyword, name |-> name,
     daysBack |-> days[1], daysForward |-> days[2]]

ListRequest(start, end, name) == [start |-> start, end |-> end, name |-> name]

(* Host configurations *)
CalendarsTwoCases ==
    <<[id |-> 1, title |-> <<"W">>], [id |-> 2, title |-> <<"w">>],
      [id |-> 3, title |-> <<"W">>]>>

CalendarsUntitled ==
    <<[id |-> 1, title |-> <<>>], [id |-> 2, title |-> <<"W">>]>>

EmptyStore == [k \in {} |-> k]

(* Events the host may already hold *)
PlainEvent ==
    [title |-> <<"a">>, startDate |-> ToNSDate(2), endDate |-> ToNSDate(3),
     allDay |-> FALSE, location |-> None, notes |-> None, url |-> None,
     alarms |-> <<>>, rules |-> <<>>, calendar |-> Some(1)]

RichEvent ==
    [title |-> <<"A", "b">>, startDate |-> ToNSDate(2), endDate |-> ToNSDate(2),
     allDay |-> TRUE, location |-> Some(<<"B">>), notes |-> Some(<<"a", "b">>),
     url |-> Some(<<"u">>), alarms |-> <<AlarmWithRelativeOffset(60)>>,
     rules |-> <<ToEkRecurrence(WeeklyUntil)>>, calendar |-> Some(2)]

EarlyEvent ==
    [title |-> <<"b">>, startDate |-> ToNSDate(1), endDate |-> ToNSDate(1),
     allDay |-> FALSE, location |-> Some(<<"a">>), notes |-> None, url |-> None,
     alarms |-> <<>>, rules |-> <<ToEkRecurrence(Daily)>>, calendar |-> Some(2)]

StoreOf(evs) == [k \in 1..Len(evs) |-> evs[k]]

StoreInputs ==
    {StoreOf(evs) : evs \in {<<>>, <<PlainEvent>>, <<RichEvent, EarlyEvent>>,
                            <<PlainEvent, RichEvent>>} }

Host == <<calendars, defaultCal>>

(* tool create_event *)
CreateTool(reqs) ==
    /\ ops > 0
    /\ nextId <= MaxEvents
    /\ \E req \in reqs, saveOk \in BOOLEAN, diag \in Diagnostics :
        LET r == CreateEvent(req, saveOk, diag)
        IN  /\ store' = r.store
            /\ nextId' = r.nextId
            /\ last' = Invocation("create_event", <<>>, req, r, saveOk, diag)
            /\ created' = IF r.err = NoError THEN Put(created, nextId, Val(r.ret))
                          ELSE created
    /\ ops' = ops - 1
    /\ UNCHANGED <<Host, updated, deleted, serverVars>>

(* tool update_event *)
UpdateTool(reqs) ==
    /\ ops > 0
    /\ \E eventId \in EventIdInputs, req \in reqs, saveOk \in BOOLEAN,
          diag \in Diagnostics :
        LET r == UpdateEvent(eventId, req, saveOk, diag)
        IN  /\ store' = r.store
            /\ last' = Invocation("update_event", eventId, req, r, saveOk, diag)
            /\ updated' = updated \cup {eventId}
    /\ ops' = ops - 1
    /\ UNCHANGED <<Host, nextId, created, deleted, serverVars>>

(* tool delete_event *)
DeleteTool ==
    /\ ops > 0
    /\ \E eventId \in EventIdInputs, removeOk \in BOOLEAN, diag \in Diagnostics :
        LET r == DeleteEvent(eventId, removeOk, diag)
        IN  /\ store' = r.store
            /\ last' = Invocation("delete_event", eventId, <<>>, r, removeOk, diag)
            /\ deleted' = IF r.err = NoError
                          THEN Put(deleted, Val(FindEvent(eventId).n), Val(r.ret))
                          ELSE deleted
    /\ ops' = ops - 1
    /\ UNCHANGED <<Host, nextId, created, updated, serverVars>>

(* tool list_events *)
ListTool ==
    /\ ops > 0
    /\ \E w \in WindowInputs, name \in NameInputs :
        LET r == ListEvents(w[1], w[2], name)
        IN  last' = Invocation("list_events", <<>>, ListRequest(w[1], w[2], name), r, TRUE, "")
    /\ ops' = ops - 1
    /\ UNCHANGED <<Host, store, nextId, created, updated, deleted, serverVars>>

(* search_events *)
SearchTool ==
    /\ ops > 0
    /\ \E now \in NowInputs, keyword \in KeywordInputs, name \in SearchNameInputs,
          days \in SearchWindows :
        LET r == SearchEvents(now, keyword, name, days[1], days[2])
        IN  last' = Invocation("search_events", <<>>,
                               SearchRequest(now, keyword, name, days), r, TRUE, "")
    /\ ops' = ops - 1
    /\ UNCHANGED <<Host, store, nextId, created, updated, deleted, serverVars>>

-----------------------------------------------------------------------------
(* The server (server.py) and the adapter's construction (calendar.py,     *)
(* __init__ and _request_access), one step per statement.                  *)

Tasks == 1..MaxTasks

Tools ==
    {"list_events", "search_events", "create_event", "update_event", "delete_event",
     "calendars"}

EKAuthorizationStatusAuthorized == 3
EKAuthorizationStatusFullAccess == 4
StatusNotDetermined == 0
StatusDenied == 2

(* The manager is constructed and idle: the state the adapter operations   *)
(* above start from.                                                       *)
ServerIdle ==
    /\ manager = "ready"
    /\ authStatus = EKAuthorizationStatusFullAccess
    /\ pc = [t \in Tasks |-> "idle"]
    /\ tool = [t \in Tasks |-> "none"]
    /\ running = None
    /\ pending = {}
    /\ done = [t \in Tasks |-> FALSE]
    /\ result = [t \in Tasks |-> None]
    /\ outcome = [t \in Tasks |-> "none"]
    /\ handles = 1
    /\ requests = 0
    /\ handshake = "granted"
    /\ issued = {}

(* faulty variant: handlers dispatched without regard to the running one *)
LoopIgnored == TRUE

(* The handlers are coroutines of one event loop and none of them awaits:  *)
(* a handler starts only when no other handler is executing.               *)
LoopFree == running = None

(* A tool call or resource read arrives and is scheduled on the loop *)
Arrive(t) ==
    /\ pc[t] = "idle"
    /\ \E name \in Tools : tool' = [tool EXCEPT ![t] = name]
    /\ pc' = [pc EXCEPT ![t] = "scheduled"]
    /\ UNCHANGED <<manager, authStatus, running, pending, done, result, outcome,
                   handles, requests, handshake, issued, adapterVars>>

(* The loop starts the handler, which calls _get_manager() *)
Start(t) ==
    /\ pc[t] = "scheduled"
    /\ LoopFree
    /\ running' = Some(t)
    /\ pc' = [pc EXCEPT ![t] = "get_manager"]
    /\ UNCHANGED <<manager, authStatus, tool, pending, done, result, outcome,
                   handles, requests, handshake, issued, adapterVars>>

(* _get_manager, line 24: `if _manager is None` *)
GetManager(t) ==
    /\ pc[t] = "get_manager"
    /\ pc' = [pc EXCEPT ![t] = IF manager = "None" THEN "init" ELSE "call"]
    /\ UNCHANGED <<manager, authStatus, tool, running, pending, done, result, outcome,
                   handles, requests, handshake, issued, adapterVars>>

(* __init__, line 47: a new EKEventStore *)
InitStore(t) ==
    /\ pc[t] = "init"
    /\ handles' = handles + 1
    /\ pc' = [pc EXCEPT ![t] = "status"]
    /\ UNCHANGED <<manager, authStatus, tool, running, pending, done, result, outcome,
                   requests, handshake, issued, adapterVars>>

(* _request_access, line 54 *)
Authorized(status) ==
    status \in {EKAuthorizationStatusAuthorized, EKAuthorizationStatusFullAccess}

(* _request_access, lines 52-55: already authorized, construction returns  *)
(* and _get_manager stores the manager                                     *)
StatusAuthorized(t) ==
    /\ pc[t] = "status"
    /\ Authorized(authStatus)
    /\ manager' = "ready"
    /\ handshake' = "granted"
    /\ pc' = [pc EXCEPT ![t] = "call"]
    /\ UNCHANGED <<authStatus, tool, running, pending, done, result, outcome,
                   handles, requests, issued, adapterVars>>

(* _request_access, lines 57-67: the permission request *)
RequestAccess(t) ==
    /\ pc[t] = "status"
    /\ ~Authorized(authStatus)
    /\ requests' = requests + 1
    /\ pending' = pending \cup {t}
    /\ done' = [done EXCEPT ![t] = FALSE]
    /\ result' = [result EXCEPT ![t] = None]
    /\ pc' = [pc EXCEPT ![t] = "poll"]
    /\ UNCHANGED <<manager, authStatus, tool, running, outcome, handles, handshake,
                   issued, adapterVars>>

(* The host fires the callback (lines 60-62) while the handler services    *)
(* the run loop (lines 70-73); the user's answer decides success.          *)
Callback(t) ==
    /\ t \in pending
    /\ pc[t] = "poll"
    /\ \E success \in BOOLEAN :
        /\ result' = [result EXCEPT ![t] = Some(success)]
        /\ authStatus' = IF success THEN EKAuthorizationStatusFullAccess ELSE StatusDenied
        /\ handshake' = IF success THEN "granted" ELSE "denied"
    /\ done' = [done EXCEPT ![t] = TRUE]
    /\ pending' = pending \ {t}
    /\ UNCHANGED <<manager, pc, tool, running, outcome, handles, requests, issued,
                   adapterVars>>

(* The user allows calendar access in System Settings *)
UserAllows ==
    /\ authStatus = StatusDenied
    /\ authStatus' = EKAuthorizationStatusFullAccess
    /\ UNCHANGED <<manager, pc, tool, running, pending, done, result, outcome,
                   handles, requests, handshake, issued, adapterVars>>

(* faulty variant: the callback's answer is not checked *)
GrantedAlways(r) == TRUE

(* line 75: `if not result[0]: raise` *)
Granted(r) == r = Some(TRUE)

(* faulty variant: the loop does not wait for the flag *)
LoopDoneAlways(t) == TRUE

(* line 70: `while not done.is_set()` *)
LoopDone(t) == done[t]

(* lines 70 and 75: the loop ends once `done` is set; construction returns *)
(* (and _get_manager stores the manager) or raises CalendarError, which    *)
(* the handler reports                                                     *)
PollExit(t) ==
    /\ pc[t] = "poll"
    /\ LoopDone(t)
    /\ IF Granted(result[t])
       THEN /\ manager' = "ready"
            /\ pc' = [pc EXCEPT ![t] = "call"]
            /\ UNCHANGED outcome
       ELSE /\ outcome' = [outcome EXCEPT ![t] = "Error: access denied"]
            /\ pc' = [pc EXCEPT ![t] = "return"]
            /\ UNCHANGED manager
    /\ UNCHANGED <<authStatus, tool, running, pending, done, result, handles, requests,
                   handshake, issued, adapterVars>>

(* The adapter method runs against the store; it returns or raises a       *)
(* CalendarError, which the handler reports                                *)
Call(t) ==
    /\ pc[t] = "call"
    /\ issued' = issued \cup {t}
    /\ \E text \in {"ok", "Error: calendar error"} :
        outcome' = [outcome EXCEPT ![t] = text]
    /\ pc' = [pc EXCEPT ![t] = "return"]
    /\ UNCHANGED <<manager, authStatus, tool, running, pending, done, result,
                   handles, requests, handshake, adapterVars>>

(* The handler returns its text; the loop is free again *)
Return(t) ==
    /\ pc[t] = "return"
    /\ pc' = [pc EXCEPT ![t] = "done"]
    /\ running' = IF running = Some(t) THEN None ELSE running
    /\ UNCHANGED <<manager, authStatus, tool, pending, done, result, outcome,
                   handles, requests, handshake, issued, adapterVars>>

InitServer ==
    /\ calendars = CalendarsTwoCases
    /\ defaultCal = Some(2)
    /\ store = EmptyStore
    /\ nextId = 1
    /\ ops = 0
    /\ last = NoInvocation
    /\ created = EmptyStore
    /\ updated = {}
    /\ deleted = EmptyStore
    /\ manager = "None"
    /\ authStatus \in {StatusNotDetermined, StatusDenied, EKAuthorizationStatusAuthorized,
                       EKAuthorizationStatusFullAccess}
    /\ pc = [t \in Tasks |-> "idle"]
    /\ tool = [t \in Tasks |-> "none"]
    /\ running = None
    /\ pending = {}
    /\ done = [t \in Tasks |-> FALSE]
    /\ result = [t \in Tasks |-> None]
    /\ outcome = [t \in Tasks |-> "none"]
    /\ handles = 0
    /\ requests = 0
    /\ handshake = "none"
    /\ issued = {}

NextServer ==
    \/ \E t \in Tasks :
        \/ Arrive(t)
        \/ Start(t)
        \/ GetManager(t)
        \/ InitStore(t)
        \/ StatusAuthorized(t)
        \/ RequestAccess(t)
        \/ Callback(t)
        \/ PollExit(t)
        \/ Call(t)
        \/ Return(t)
    \/ UserAllows

SpecServer == InitServer /\ [][NextServer]_vars

(* SpecHandshake: the server with the polling thread making progress: the  *)
(* loop of lines 70-73 re-tests its flag every 100 ms tick, so once the    *)
(* flag is set and stays set the loop is left.  Nothing is assumed of the  *)
(* host: it may never fire the callback.                                   *)
SpecHandshake ==
    /\ InitServer
    /\ [][NextServer]_vars
    /\ \A t \in Tasks : WF_vars(PollExit(t))

-----------------------------------------------------------------------------
(* Spec: tool invocations against a host that already holds events *)

Init ==
    /\ calendars \in {CalendarsTwoCases, CalendarsUntitled}
    /\ defaultCal \in {None, Some(2)}
    /\ store \in StoreInputs
    /\ nextId = Cardinality(DOMAIN store) + 1
    /\ ops = MaxOps
    /\ last = NoInvocation
    /\ created = EmptyStore
    /\ updated = {}
    /\ deleted = EmptyStore
    /\ ServerIdle

Next ==
    \/ CreateTool(CreateRequests)
    \/ UpdateTool(UpdateRequests)
    \/ DeleteTool
    \/ ListTool
    \/ SearchTool

Spec == Init /\ [][Next]_vars

-----------------------------------------------------------------------------
(* SpecLifecycle: events created, edited and deleted from an empty store *)

LifecycleCreates ==
    {r \in CreateRequests :
        /\ r.location = None /\ r.notes = None /\ r.url = None
        /\ r.alarms_minutes_offsets = None /\ ~r.all_day
        /\ r.recurrence_rule \in {None, Some(Daily)}}

LifecycleUpdates ==
    {r \in OneFieldRequests :
        \/ r.title = Some(<<"A", "b">>)
        \/ r.end_time = Some(2)
        \/ r.calendar_name \in {Some(<<"w">>), Some(<<"x">>)}
        \/ r.recurrence_rule = Some(Daily)}

InitLifecycle ==
    /\ calendars \in {CalendarsTwoCases, CalendarsUntitled}
    /\ defaultCal \in {None, Some(2)}
    /\ store = EmptyStore
    /\ nextId = 1
    /\ ops = MaxSteps
    /\ last = NoInvocation
    /\ created = EmptyStore
    /\ updated = {}
    /\ deleted = EmptyStore
    /\ ServerIdle

NextLifecycle ==
    \/ CreateTool(LifecycleCreates)
    \/ UpdateTool(LifecycleUpdates)
    \/ DeleteTool

SpecLifecycle == InitLifecycle /\ [][NextLifecycle]_vars

-----------------------------------------------------------------------------
(* Properties *)

(* The native field a request field is written to *)
NativeField(f) ==
    CASE f = "title" -> "title"
      [] f = "start_time" -> "startDate"
      [] f = "end_time" -> "endDate"
      [] f = "all_day" -> "allDay"
      [] f = "location" -> "location"
      [] f = "notes" -> "notes"
      [] f = "url" -> "url"
      [] f = "calendar_name" -> "calendar"
      [] f = "alarms_minutes_offsets" -> "alarms"
      [] f = "recurrence_rule" -> "rules"

NativeFields == {NativeField(f) : f \in Fields}

(* The step is an invocation of tool `op` *)
Invoked(op) == ops' = ops - 1 /\ last'.op = op

(* The host event number an identifier is stored under (identifiers are    *)
(* never reused, so this is the same before and after a step).             *)
NumberOf(eventId) == CHOOSE n \in 1..MaxEvents + MaxOps + MaxSteps : IdOf(n) = eventId

Known(eventId, st) == \E n \in DOMAIN st : IdOf(n) = eventId

(* C1: an update_event whose request supplies exactly one field leaves     *)
(* every other field of the event (title, start, end, all-day, location,   *)
(* notes, url, calendar, alarms, recurrence rules) as it was before.       *)
C1_PartialUpdate ==
    [][(/\ Invoked("update_event")
        /\ Cardinality(last'.req.supplied) = 1
        /\ Known(last'.id, store))
       => LET n == NumberOf(last'.id)
              f == CHOOSE f \in last'.req.supplied : TRUE
          IN  /\ n \in DOMAIN store'
              /\ \A g \in NativeFields \ {NativeField(f)} : store'[n][g] = store[n][g]]_vars

(* a successful update that supplied only the title of an event carrying   *)
(* notes, alarms and a recurrence rule, and changed the title              *)
C1_Witness ==
    /\ last.op = "update_event"
    /\ last.err = NoError
    /\ last.req.supplied = {"title"}
    /\ last.req.title = Some(<<"a">>)
    /\ Known(last.id, store)
    /\ LET ev == store[NumberOf(last.id)]
       IN  /\ ev.title = <<"a">>
           /\ ev.notes = Some(<<"a", "b">>)
           /\ ev.alarms # <<>>
           /\ ev.rules # <<>>

NewAlarms(o) ==
    IF o = None THEN <<>>
    ELSE [i \in 1..Len(Val(o)) |-> (0 - 60) * Val(o)[i]]

NewRules(o) == IF o = None THEN <<>> ELSE <<ToEkRecurrence(Val(o))>>

(* C2: after a successful update_event whose request supplies alarms       *)
(* (resp. a recurrence rule), a supplied null included, the event carries  *)
(* exactly the alarms (resp. rules) of the request: none when the request  *)
(* supplied null.                                                          *)
C2_ReplaceOrClear ==
    (/\ last.op = "update_event"
     /\ last.err = NoError)
    => LET ev == store[NumberOf(last.id)]
       IN  /\ "alarms_minutes_offsets" \in last.req.supplied
                => ev.alarms = NewAlarms(last.req.alarms_minutes_offsets)
           /\ "recurrence_rule" \in last.req.supplied
                => ev.rules = NewRules(last.req.recurrence_rule)

(* C3: the save update_event issues carries the this-and-future span iff   *)
(* the event has a recurrence rule once the request's edits are applied,   *)
(* and the remove delete_event issues carries it iff the event has a       *)
(* recurrence rule; otherwise they carry the this-event-only span.         *)
C3_SpanRule ==
    [][(/\ Invoked("update_event") \/ Invoked("delete_event")
        /\ Commits(last'.calls) # {})
       => LET n == NumberOf(last'.id)
              recurring ==
                  IF last'.op = "delete_event" THEN store[n].rules # <<>>
                  ELSE IF last'.err = NoError THEN store'[n].rules # <<>>
                  ELSE last'.req.recurrence_rule # None \/ store[n].rules # <<>>
          IN  \A i \in Commits(last'.calls) :
                /\ last'.calls[i].call =
                     (IF last'.op = "delete_event" THEN "removeEvent" ELSE "saveEvent")
                /\ last'.calls[i].span = Some(IF recurring THEN 1 ELSE 0)]_vars

(* an update gave a rule to an event that had none, and saved with the     *)
(* this-and-future span                                                    *)
C3_Witness ==
    /\ last.op = "update_event"
    /\ last.err = NoError
    /\ last.req.supplied = {"recurrence_rule"}
    /\ \E i \in Commits(last.calls) : last.calls[i].span = Some(EKSpanFutureEvents)
    /\ store[NumberOf(last.id)].title = <<"a">>

(* C5: an event returned by create_event has a non-empty identifier, the   *)
(* requested title and the requested calendar (the host's default when the *)
(* request names none); until an update or a delete of that identifier,    *)
(* looking the identifier up finds an event with the same title, start,    *)
(* end and calendar; a delete_event of an event never updated returns its  *)
(* title; and once deleted, looking the identifier up raises NoSuchEvent.  *)
C5_Lifecycle ==
    /\ (last.op = "create_event" /\ last.err = NoError)
         => /\ Val(last.ret).title = last.req.title
            /\ Val(last.ret).calendar_name =
                 (IF last.req.calendar_name = None THEN CalTitle(Val(defaultCal))
                  ELSE Val(last.req.calendar_name))
    /\ \A n \in DOMAIN created :
         LET e == created[n]
             look == FindEvent(e.identifier)
         IN  /\ Len(e.identifier) > 0
             /\ (e.identifier \notin updated /\ n \notin DOMAIN deleted)
                  => /\ look.err = NoError
                     /\ LET f == FromEkevent(Val(look.n), store[Val(look.n)])
                        IN  /\ f.title = e.title
                            /\ f.start_time = e.start_time
                            /\ f.end_time = e.end_time
                            /\ f.calendar_name = e.calendar_name
             /\ (n \in DOMAIN deleted /\ e.identifier \notin updated)
                  => deleted[n] = e.title
             /\ n \in DOMAIN deleted
                  => /\ look.err.kind = "NoSuchEventError"
                     /\ look.err.detail = Some(e.identifier)

(* an event created in the default calendar was deleted, the delete        *)
(* returned its title, and the identifier is no longer found               *)
C5_Witness ==
    /\ last.op = "delete_event"
    /\ last.err = NoError
    /\ defaultCal # None
    /\ \E n \in DOMAIN created :
         /\ n \in DOMAIN deleted
         /\ created[n].identifier = last.id
         /\ created[n].calendar_name = CalTitle(Val(defaultCal))
         /\ last.ret = Some(created[n].title)
         /\ FindEvent(last.id).err.kind = "NoSuchEventError"

-----------------------------------------------------------------------------
(* Calendar resolution and search, stated without the adapter's operators *)

(* The rule: absent -> the host default; a name -> the first calendar in   *)
(* enumeration order with exactly that title.                              *)
RuleResolve(name) ==
    IF name = None
    THEN [ok |-> defaultCal # None, cal |-> defaultCal]
    ELSE LET titled == {i \in 1..Len(calendars) : calendars[i].title = Val(name)}
         IN  IF titled = {} THEN [ok |-> FALSE, cal |-> None]
             ELSE LET first == CHOOSE i \in titled :
                                  \A j \in 1..(i - 1) : calendars[j].title # Val(name)
                  IN  [ok |-> TRUE, cal |-> Some(calendars[first].id)]

(* The error the rule prescribes when it fails; kindOfDefault is the kind  *)
(* raised for a missing default calendar.                                  *)
RuleError(err, name, kindOfDefault) ==
    IF name = None THEN err.kind = kindOfDefault
    ELSE err.kind = "NoSuchCalendarError" /\ err.detail = Some(Val(name))

HostFailed(inv) == inv.host # None /\ ~Val(inv.host).ok

SameLetter(c, d) ==
    \/ c = d
    \/ {c, d} \in {{"a", "A"}, {"b", "B"}, {"w", "W"}}

(* kw occurs in text, letter case ignored *)
OccursIgnoringCase(text, kw) ==
    \E i \in 0..(Len(text) - Len(kw)) :
        \A j \in 1..Len(kw) : SameLetter(text[i + j], kw[j])

KeywordHit(e, kw) ==
    \/ OccursIgnoringCase(e.title, kw)
    \/ OccursIgnoringCase(IF e.notes = None THEN <<>> ELSE Val(e.notes), kw)
    \/ OccursIgnoringCase(IF e.location = None THEN <<>> ELSE Val(e.location), kw)

(* The events of store st the host's window query [start, end] covers, in  *)
(* calendar scope (None: every calendar)                                   *)
InWindow(st, start, end, scope) ==
    {n \in DOMAIN st :
        /\ st[n].startDate <= end - UtcOffset
        /\ st[n].endDate >= start - UtcOffset
        /\ (scope = None \/ st[n].calendar = scope)}

Returned(inv) == {Val(inv.ret)[i].identifier : i \in 1..Len(Val(inv.ret))}

(* What a read tool must return: when its calendar name goes by the rule,  *)
(* the rule's error or the wanted events of the rule's calendar; otherwise *)
(* the wanted events of every calendar.                                    *)
ReadResolves(inv, byRule, kindOfDefault, wantedInRuleCalendar, wantedAnywhere) ==
    IF byRule /\ ~RuleResolve(inv.req.name).ok
    THEN RuleError(inv.err, inv.req.name, kindOfDefault) /\ inv.ret = None
    ELSE /\ inv.err = NoError
         /\ Returned(inv) =
              {IdOf(n) : n \in IF byRule THEN wantedInRuleCalendar ELSE wantedAnywhere}

(* The ids search_events must find in calendar scope *)
SearchWanted(st, req, scope) ==
    {n \in InWindow(st, req.now - req.daysBack, req.now + req.daysForward, scope) :
        KeywordHit(FromEkevent(n, st[n]), req.keyword)}

(* A read tool's name goes by the rule when it is given and, unless an     *)
(* empty name goes by the rule too, non-empty.                             *)
ReadByRule(name, emptyToo) == name # None /\ (emptyToo \/ name # Some(<<>>))

Resolution(kindOfDefault, emptyToo) ==
    /\ Invoked("create_event")
         => LET name == last'.req.calendar_name
                r == RuleResolve(name)
            IN  IF ~r.ok
                THEN RuleError(last'.err, name, kindOfDefault) /\ Commits(last'.calls) = {}
                ELSE /\ last'.err # NoError => HostFailed(last')
                     /\ last'.err = NoError
                          => store'[NumberOf(Val(last'.ret).identifier)].calendar = r.cal
    /\ (Invoked("update_event") /\ Known(last'.id, store))
         => LET name == last'.req.calendar_name
                r == RuleResolve(name)
                n == NumberOf(last'.id)
            IN  IF name = None THEN store'[n].calendar = store[n].calendar
                ELSE IF ~r.ok
                THEN RuleError(last'.err, name, kindOfDefault) /\ Commits(last'.calls) = {}
                ELSE /\ last'.err # NoError => HostFailed(last')
                     /\ last'.err = NoError => store'[n].calendar = r.cal
    /\ Invoked("list_events")
         => LET req == last'.req
            IN  ReadResolves(last', ReadByRule(req.name, emptyToo), kindOfDefault,
                             InWindow(store, req.start, req.end, RuleResolve(req.name).cal),
                             InWindow(store, req.start, req.end, None))
    /\ Invoked("search_events")
         => LET req == last'.req
            IN  ReadResolves(last', ReadByRule(req.name, emptyToo), kindOfDefault,
                             SearchWanted(store, req, RuleResolve(req.name).cal),
                             SearchWanted(store, req, None))

(* C6 as stated: a missing default calendar raises NoSuchCalendar, and     *)
(* create_event, update_event, list_events and search_events resolve every *)
(* calendar name they are given by the rule.                               *)
C6_AsStated == [][Resolution("NoSuchCalendarError", TRUE)]_vars

(* C6, amended: a missing default calendar raises a plain CalendarError;   *)
(* create_event resolves its calendar name (absent included) by the rule,  *)
(* update_event resolves a supplied name by the rule and keeps the         *)
(* calendar when none is supplied, and list_events and search_events       *)
(* resolve a non-empty name by the rule and query every calendar when the  *)
(* name is absent or empty.                                                *)
C6_Resolution == [][Resolution("CalendarError", FALSE)]_vars

(* an event was created under a title two calendars carry, and landed in   *)
(* the first of them, not in the calendar whose title differs by case      *)
C6_Witness ==
    /\ last.op = "create_event"
    /\ last.err = NoError
    /\ last.req.calendar_name = Some(<<"W">>)
    /\ calendars = CalendarsTwoCases
    /\ store[NumberOf(Val(last.ret).identifier)].calendar = Some(1)

(* C7: search_events returns exactly the events list_events returns for    *)
(* the window [now - daysBack, now + daysForward] (30 and 90 by default)   *)
(* whose title, notes or location contains the keyword, letter case        *)
(* ignored (absent notes and location counting as empty), in list_events'  *)
(* ascending order of start; an empty sequence when nothing matches; and   *)
(* it fails only as list_events fails.                                     *)
C7_Search ==
    last.op = "search_events"
    => LET listed == ListEvents(last.req.now - last.req.daysBack,
                                last.req.now + last.req.daysForward, last.req.name)
           Hit(e) == KeywordHit(e, last.req.keyword)
       IN  IF listed.err # NoError THEN last.err = listed.err /\ last.ret = None
           ELSE /\ last.err = NoError
                /\ Val(last.ret) = SelectSeq(Val(listed.ret), Hit)
                /\ \A i, j \in 1..Len(Val(last.ret)) :
                     i < j => Val(last.ret)[i].start_time <= Val(last.ret)[j].start_time

(* a search with an upper-case keyword returned, of a store holding two    *)
(* events in its window, exactly the one whose lower-case notes match      *)
C7_Witness ==
    /\ last.op = "search_events"
    /\ last.err = NoError
    /\ last.req.keyword = <<"a", "B">>
    /\ last.req.daysBack = 30 /\ last.req.daysForward = 90
    /\ Cardinality(InWindow(store, last.req.now - 30, last.req.now + 90, None)) = 2
    /\ Len(Val(last.ret)) = 1
    /\ Val(last.ret)[1].notes = Some(<<"a", "b">>)

(* C10: a create_event, update_event or delete_event issues at most one    *)
(* save or remove; when the host reports failure the adapter raises a      *)
(* CalendarError carrying the host's diagnostic and returns nothing; a     *)
(* failed lookup is raised before any save or remove is issued; and the    *)
(* tool reports every error as an error, never as success.                 *)
C10_FailureReporting ==
    last.op \in {"create_event", "update_event", "delete_event"}
    => /\ Cardinality(Commits(last.calls)) <= 1
       /\ HostFailed(last)
            => /\ last.err.kind = "CalendarError"
               /\ last.err.what =
                    (CASE last.op = "create_event" -> "create failed"
                       [] last.op = "update_event" -> "update failed"
                       [] last.op = "delete_event" -> "delete failed")
               /\ last.err.detail = Some(Val(last.host).diag)
               /\ last.ret = None
       /\ last.err.kind \in {"NoSuchEventError", "NoSuchCalendarError"}
            => Commits(last.calls) = {}
       /\ last.err # NoError
            => /\ last.ret = None
               /\ last.out.status = "error"
               /\ last.out.error = last.err
       /\ last.err = NoError => last.out.status = "ok" /\ last.ret # None

(* an update reached the host, the host refused the save, and the tool     *)
(* reported the error                                                      *)
C10_Witness ==
    /\ last.op = "update_event"
    /\ HostFailed(last)
    /\ Cardinality(Commits(last.calls)) = 1
    /\ last.out.status = "error"
    /\ last.err.detail = Some("read-only calendar")

-----------------------------------------------------------------------------
(* The server *)

(* The invocation is inside the adapter: constructing it (the handshake    *)
(* included) or running one of its methods                                 *)
InAdapter(t) == pc[t] \in {"init", "status", "poll", "call"}

(* C4: a handshake that reports denial makes the construction fail with    *)
(* the authorization error (the handler reports it, no manager is kept,    *)
(* the invocation never reaches the store); and a store operation is       *)
(* issued only when the last handshake reported access granted.            *)
C4_AuthorizationGate ==
    [][/\ \A t \in Tasks :
            (result'[t] = Some(FALSE) /\ pc'[t] \in {"return", "done"})
            => outcome'[t] = "Error: access denied" /\ t \notin issued'
       /\ handshake' = "denied" => manager' = "None"
       /\ issued' # issued => handshake = "granted"]_vars

(* one invocation was refused by the handshake and reported the error; a   *)
(* later one, after access was granted, reached the store                  *)
C4_Witness ==
    \E t1, t2 \in Tasks :
        /\ result[t1] = Some(FALSE)
        /\ outcome[t1] = "Error: access denied"
        /\ pc[t1] = "done"
        /\ t2 \in issued
        /\ manager = "ready"

(* C8: at most one invocation is inside the adapter at any time *)
C8_Serialized == Cardinality({t \in Tasks : InAdapter(t)}) <= 1

(* an invocation arrived while another was polling for the permission      *)
(* callback, and waits                                                     *)
C8_Witness ==
    \E t1, t2 \in Tasks :
        /\ pc[t1] = "poll"
        /\ ~done[t1]
        /\ pc[t2] = "scheduled"

(* C9: in one process the store handle is created once and the permission  *)
(* request is issued at most once, and a construction that finds access    *)
(* authorized issues no request.                                           *)
C9_HandshakeOnce ==
    [][/\ handles' <= 1
       /\ requests' <= 1
       /\ requests' # requests => ~Authorized(authStatus)]_vars

(* A construction is under way in invocation t and has not completed *)
Constructing(t) == pc[t] \in {"init", "status", "poll"}

(* C11: a construction that finds access not authorized issues the         *)
(* permission request and polls; it does not complete (return or raise)    *)
(* before the permission callback has fired, so it never completes if the  *)
(* callback never fires; once the callback has fired it eventually         *)
(* completes, returning normally (the manager is kept) when the callback   *)
(* reported success and raising the authorization error when it reported   *)
(* denial.                                                                 *)
C11_BlockingHandshake ==
    /\ [][\A t \in Tasks :
            /\ (pc[t] = "status" /\ pc'[t] # "status" /\ ~Authorized(authStatus))
                 => /\ requests' = requests + 1
                    /\ t \in pending'
                    /\ Constructing(t)'
            /\ (pc[t] = "poll" /\ t \in pending') => Constructing(t)'
            /\ (pc[t] = "poll" /\ ~Constructing(t)')
                 => /\ t \notin pending
                    /\ result[t] \in {Some(TRUE), Some(FALSE)}
                    /\ IF result[t] = Some(TRUE)
                       THEN pc'[t] = "call" /\ manager' = "ready"
                       ELSE /\ pc'[t] = "return"
                            /\ outcome'[t] = "Error: access denied"
                            /\ manager' = "None"]_vars
    /\ \A t \in Tasks :
         (pc[t] = "poll" /\ t \notin pending) ~> ~Constructing(t)

(* a construction found access not authorized, requested it, the callback  *)
(* reported success, and the construction returned with the manager kept   *)
C11_Witness ==
    \E t \in Tasks :
        /\ requests = 1
        /\ result[t] = Some(TRUE)
        /\ pc[t] = "call"
        /\ manager = "ready"
        /\ handles = 1

====
